---- MODULE Spec2Model ----
(***************************************************************************)
(* Model of the sales analytics pipeline: the custom sort and search       *)
(* algorithms (algorithms.py), the value normalisers (utils.py), the       *)
(* cleaning pipeline with its missing-value strategies and the business    *)
(* metrics of SalesAnalyzer (analyzer.py).                                 *)
(*                                                                         *)
(* The program is a sequential batch of pure stages, so each part is a     *)
(* small state machine whose actions are calls: the state holds the        *)
(* argument a call was given and what it returned.                         *)
(***************************************************************************)
EXTENDS Integers, Sequences, FiniteSets, TLC

VARIABLES
    algoOp,     \* which function of algorithms.py was called last
    arr,        \* the list handed to it
    target,     \* the search target
    ret,        \* what it returned
    raw,        \* the table load_data returned
    cleaned,    \* the table clean_data returned for it
    cleanPc,    \* "loaded" before clean_data has run, "cleaned" after
    frameIn,    \* the table first handed to a missing-value strategy
    frame,      \* the table the last strategy returned
    applied,    \* the strategies applied so far, in order
    orders,     \* the cleaned table handed to run_analytics_and_exports
    report,     \* what the run computed
    anaPc,      \* "loaded", then "done" or "raised" (the run ended in an exception)
    csv,        \* the top_customers.csv the run wrote
    before,     \* the run before an order amount was raised
    handed,     \* the table or list the last call was given, as it was then
    handedNow   \* the same object of the caller, as the call left it

algoVars == <<algoOp, arr, target, ret>>
cleanVars == <<raw, cleaned, cleanPc>>
strategyVars == <<frameIn, frame, applied>>
analyticsVars == <<orders, report, anaPc, csv, before>>

vars == <<algoOp, arr, target, ret, raw, cleaned, cleanPc, frameIn, frame, applied,
          orders, report, anaPc, csv, before, handed, handedNow>>

----------------------------------------------------------------------------
(* The parts that a specification leaves out stay as constructed. *)

CleanIdle ==
    /\ raw = <<>>
    /\ cleaned = <<>>
    /\ cleanPc = "idle"

NothingHanded ==
    /\ handed = <<>>
    /\ handedNow = <<>>

StrategyIdle ==
    /\ frameIn = <<>>
    /\ frame = <<>>
    /\ applied = <<>>

\* a number that may be NaN: num / den
Rat(n, d) == [nan |-> FALSE, num |-> n, den |-> d]
NaN == [nan |-> TRUE, num |-> 0, den |-> 1]

NoReport ==
    [total_revenue |-> 0, aov |-> NaN, customer_count |-> 0, revenue_by_cat |-> <<>>,
     top_category |-> "", customer_ltv |-> <<>>, top_customers |-> <<>>,
     repeat_rate |-> NaN, q1 |-> NaN, q3 |-> NaN, upper |-> NaN, outliers |-> <<>>,
     tiers |-> <<>>, segmentation |-> <<>>]

NoBefore == [upper |-> NaN, q3 |-> NaN, row |-> 0, amounts |-> <<>>]

AnalyticsIdle ==
    /\ orders = <<>>
    /\ report = NoReport
    /\ anaPc = "idle"
    /\ csv = <<>>
    /\ before = NoBefore

----------------------------------------------------------------------------
(* Bounds of the algorithm inputs *)

MaxLen == 4
MaxKey == 3

Keys == 1..MaxKey

RECURSIVE SeqsOfLen(_, _)
SeqsOfLen(S, n) ==
    IF n = 0 THEN {<<>>}
    ELSE {Append(s, x) : s \in SeqsOfLen(S, n - 1), x \in S}

SeqsUpTo(S, n) == UNION {SeqsOfLen(S, k) : k \in 0..n}

(* A list element: a sort key and the position the element had in the     *)
(* caller's list.  Python compares the elements by key only.              *)
Tag(s) == [i \in 1..Len(s) |-> [k |-> s[i], id |-> i]]

TaggedLists(n) == {Tag(s) : s \in SeqsUpTo(Keys, n)}

IsSortedKeys(s) == \A i \in 1..(Len(s) - 1) : s[i] <= s[i + 1]

SortedLists(n) == {s \in SeqsUpTo(Keys, n) : IsSortedKeys(s)}

Targets == 0..(MaxKey + 1)

----------------------------------------------------------------------------
(* algorithms.py *)

Slice(s, from, to) == [i \in 1..(IF to >= from THEN to - from + 1 ELSE 0) |-> s[from + i - 1]]

\* a merge that takes the right element on a tie
LeStrict(a, b) == a.k < b.k

\* left[i] <= right[j] on list elements
Le(a, b) == a.k <= b.k

RECURSIVE MergeLoop(_, _, _, _, _)
MergeLoop(left, right, i, j, merged) ==
    IF i <= Len(left) /\ j <= Len(right)
    THEN IF Le(left[i], right[j])
         THEN MergeLoop(left, right, i + 1, j, Append(merged, left[i]))
         ELSE MergeLoop(left, right, i, j + 1, Append(merged, right[j]))
    ELSE merged \o Slice(left, i, Len(left)) \o Slice(right, j, Len(right))

merge(left, right) == MergeLoop(left, right, 1, 1, <<>>)

RECURSIVE merge_sort(_)
merge_sort(a) ==
    IF Len(a) <= 1 THEN a
    ELSE LET mid == Len(a) \div 2
         IN merge(merge_sort(Slice(a, 1, mid)), merge_sort(Slice(a, mid + 1, Len(a))))

NotFound == -1
\* the loop did not end within the iterations a bisection can need
Diverged == NotFound - 1

\* lo = mid in place of lo = mid + 1
NextLoNoAdvance(mid) == mid

NextLo(mid) == mid + 1

\* lo, hi, mid are Python's 0-based indices; fuel counts loop iterations
RECURSIVE BinaryLoop(_, _, _, _, _)
BinaryLoop(s, x, lo, hi, fuel) ==
    IF ~(lo <= hi) THEN NotFound
    ELSE IF fuel = 0 THEN Diverged
    ELSE LET mid == (lo + hi) \div 2
         IN IF s[mid + 1] = x THEN mid
            ELSE IF s[mid + 1] < x
                 THEN BinaryLoop(s, x, NextLo(mid), hi, fuel - 1)
                 ELSE BinaryLoop(s, x, lo, mid - 1, fuel - 1)

binary_search(sorted_arr, x) ==
    BinaryLoop(sorted_arr, x, 0, Len(sorted_arr) - 1, Len(sorted_arr) + 1)

RECURSIVE LinearLoop(_, _, _)
LinearLoop(s, x, i) ==
    IF i >= Len(s) THEN NotFound
    ELSE IF s[i + 1] = x THEN i
    ELSE LinearLoop(s, x, i + 1)

linear_search(s, x) == LinearLoop(s, x, 0)

AlgoIdle ==
    /\ algoOp = "none"
    /\ arr = <<>>
    /\ target = 0
    /\ ret = <<>>

AlgoInit == AlgoIdle /\ CleanIdle /\ StrategyIdle /\ AnalyticsIdle /\ NothingHanded

CallMergeSort ==
    \E L \in TaggedLists(MaxLen) :
        /\ algoOp = "none"
        /\ algoOp' = "merge_sort"
        /\ arr' = L
        /\ target' = 0
        /\ ret' = merge_sort(L)
        /\ handed' = L
        /\ handedNow' = L
        /\ UNCHANGED <<cleanVars, strategyVars, analyticsVars>>

CallBinarySearch ==
    \E S \in SortedLists(MaxLen), x \in Targets :
        /\ algoOp = "none"
        /\ algoOp' = "binary_search"
        /\ arr' = S
        /\ target' = x
        /\ ret' = binary_search(S, x)
        /\ handed' = S
        /\ handedNow' = S
        /\ UNCHANGED <<cleanVars, strategyVars, analyticsVars>>

CallLinearSearch ==
    \E S \in SeqsUpTo(Keys, MaxLen), x \in Targets :
        /\ algoOp = "none"
        /\ algoOp' = "linear_search"
        /\ arr' = S
        /\ target' = x
        /\ ret' = linear_search(S, x)
        /\ handed' = S
        /\ handedNow' = S
        /\ UNCHANGED <<cleanVars, strategyVars, analyticsVars>>

\* the caller is done with the result; the next call starts afresh
AlgoReturn ==
    /\ algoOp # "none"
    /\ algoOp' = "none"
    /\ arr' = <<>>
    /\ target' = 0
    /\ ret' = <<>>
    /\ handed' = <<>>
    /\ handedNow' = <<>>
    /\ UNCHANGED <<cleanVars, strategyVars, analyticsVars>>

AlgoNext == CallMergeSort \/ CallBinarySearch \/ CallLinearSearch \/ AlgoReturn

SpecAlgo == AlgoInit /\ [][AlgoNext]_vars

----------------------------------------------------------------------------
(* C1: merge_sort(L) is a permutation of L, is non-decreasing, and keeps   *)
(* elements that compare equal in the relative order they had in L; a list *)
(* of length 0 or 1 is returned unchanged.                                 *)

IsPermutationOf(r, a) ==
    /\ Len(r) = Len(a)
    /\ \A i \in 1..Len(a) : \E j \in 1..Len(r) : r[j] = a[i]

C1_MergeSortSortsStably ==
    algoOp = "merge_sort" =>
        /\ IsPermutationOf(ret, arr)
        /\ \A i \in 1..(Len(ret) - 1) : ret[i].k <= ret[i + 1].k
        /\ \A i \in 1..(Len(ret) - 1) : ret[i].k = ret[i + 1].k => ret[i].id < ret[i + 1].id
        /\ Len(arr) <= 1 => ret = arr

\* a list with equal keys that are not adjacent in the input, sorted
C1_Witness ==
    /\ algoOp = "merge_sort"
    /\ Len(arr) >= 4
    /\ arr[1].k = arr[3].k
    /\ arr[2].k < arr[1].k
    /\ arr[4].k = arr[2].k
    /\ ret # arr

(* C2: on a non-decreasing sequence, binary_search ends; it returns an     *)
(* index holding the target when the target occurs, and -1 when not.       *)
C2_BinarySearchFinds ==
    algoOp = "binary_search" =>
        /\ ret # Diverged
        /\ (\E i \in 1..Len(arr) : arr[i] = target) =>
               (ret >= 0 /\ ret < Len(arr) /\ arr[ret + 1] = target)
        /\ (\A i \in 1..Len(arr) : arr[i] # target) => ret = NotFound

\* a target with duplicates, found at an index that is not its first
C2_Witness ==
    /\ algoOp = "binary_search"
    /\ Len(arr) >= 3
    /\ ret >= 1
    /\ arr[ret] = target
    /\ arr[ret + 1] = target

----------------------------------------------------------------------------
(* algorithms.py: the timing comparators.  A Python name refers to an      *)
(* object; a call hands over the caller's object, and what is written      *)
(* through a name lands in the object the name refers to.  The store holds *)
(* the caller's object and the object a copy made.                         *)

Store(value) == [caller |-> value]

\* a name bound to the caller's object where the code makes a copy
SameObject(store, ref) == [store |-> store, ref |-> ref]

\* list(data), df.copy(): a new object with the same content
CopyObject(store, ref) ==
    [store |-> [o \in DOMAIN store \cup {"local"} |->
                   IF o = "local" THEN store[ref] ELSE store[o]],
     ref |-> "local"]

\* what a name assignment or an in-place column assignment writes
WriteObject(store, ref, value) == [store EXCEPT ![ref] = value]

(* timeit reads time.perf_counter before and after the trials and returns  *)
(* the difference; the clock is monotonic, so the second reading is not    *)
(* below the first.  Readings are in clock ticks.                          *)
MaxTick == 2

Readings == {r \in (0..MaxTick) \X (0..MaxTick) : r[1] <= r[2]}

Elapsed(r) == r[2] - r[1]

\* float("inf")
Inf == [nan |-> FALSE, num |-> 1, den |-> 0]

\* the result of a division that raised ZeroDivisionError
ZeroDivision == [nan |-> TRUE, num |-> 0, den |-> 0]

\* a / b on floats
TrueDiv(a, b) == IF b = 0 THEN ZeroDivision ELSE Rat(a, b)

\* the ratio taken without looking at the denominator
SpeedupUnguarded(custom, builtin) == TrueDiv(custom, builtin)

Speedup(custom, builtin) == IF builtin > 0 THEN TrueDiv(custom, builtin) ELSE Inf

TimingResult(custom, builtin) ==
    [custom_seconds |-> custom, builtin_seconds |-> builtin,
     speedup |-> Speedup(custom, builtin)]

(* One trial of the custom sort and one of the built-in sort: each sorts a *)
(* copy made for the trial and drops the result.                           *)
SortTrial(store) ==
    LET copy == CopyObject(store, "caller")
        sorted == merge_sort(Tag(copy.store[copy.ref]))
    IN copy.store

\* timeit runs the statement `number` times; the model runs up to MaxRepeats
MaxRepeats == 3

TrialCount(number) == IF number > MaxRepeats THEN MaxRepeats ELSE number

RECURSIVE SortTrials(_, _)
SortTrials(store, n) ==
    IF n = 0 THEN store ELSE SortTrials(SortTrial(store), n - 1)

\* binary_search and the in operator read the caller's list
SearchTrial(store, x) ==
    LET found == binary_search(store["caller"], x)
    IN store

RECURSIVE SearchTrials(_, _, _)
SearchTrials(store, x, n) ==
    IF n = 0 THEN store ELSE SearchTrials(SearchTrial(store, x), x, n - 1)

\* the result, and the caller's list as the trials leave it
compare_sort_timing(data, repeats, customClock, builtinClock) ==
    LET afterCustom == SortTrials(Store(data), TrialCount(repeats))
        afterBuiltin == SortTrials(Store(afterCustom["caller"]), TrialCount(repeats))
    IN [result |-> TimingResult(Elapsed(customClock), Elapsed(builtinClock)),
        data |-> afterBuiltin["caller"]]

compare_search_timing(sorted_data, x, repeats, customClock, builtinClock) ==
    LET afterCustom == SearchTrials(Store(sorted_data), x, TrialCount(repeats))
        afterBuiltin == SearchTrials(Store(afterCustom["caller"]), x, TrialCount(repeats))
    IN [result |-> TimingResult(Elapsed(customClock), Elapsed(builtinClock)),
        data |-> afterBuiltin["caller"]]

\* the default repeats of compare_sort_timing
SortRepeats == 3

TimingOp(name, result) ==
    IF result.speedup = ZeroDivision THEN "ZeroDivisionError" ELSE name

CallCompareSortTiming ==
    /\ algoOp = "none"
    /\ \E L \in SeqsUpTo(Keys, MaxLen), customClock \in Readings, builtinClock \in Readings :
        LET out == compare_sort_timing(L, SortRepeats, customClock, builtinClock)
        IN /\ algoOp' = TimingOp("compare_sort_timing", out.result)
           /\ arr' = L
           /\ handed' = L
           /\ handedNow' = out.data
           /\ target' = 0
           /\ ret' = out.result
           /\ UNCHANGED <<cleanVars, strategyVars, analyticsVars>>

CallCompareSearchTiming ==
    /\ algoOp = "none"
    /\ \E S \in SortedLists(MaxLen), x \in Targets, repeats \in 1..MaxRepeats,
          customClock \in Readings, builtinClock \in Readings :
        LET out == compare_search_timing(S, x, repeats, customClock, builtinClock)
        IN /\ algoOp' = TimingOp("compare_search_timing", out.result)
           /\ arr' = S
           /\ handed' = S
           /\ handedNow' = out.data
           /\ target' = x
           /\ ret' = out.result
           /\ UNCHANGED <<cleanVars, strategyVars, analyticsVars>>

TimingNext == CallCompareSortTiming \/ CallCompareSearchTiming \/ AlgoReturn

SpecTiming == AlgoInit /\ [][TimingNext]_vars

----------------------------------------------------------------------------
(* Table cells. A cell read from the CSV is a string, a number or the     *)
(* missing value (NaN); Python's None and NaT are the missing value too,   *)
(* since pandas' isna, fillna, dropna and comparisons treat them alike.    *)
(* Strings are sequences of characters.  Numbers are kept in hundredths,   *)
(* so 250 is 2.50; the inputs drawn have at most two decimals.             *)

Str(chars) == [kind |-> "str", s |-> chars, n |-> 0]
Num(x) == [kind |-> "num", s |-> <<>>, n |-> x]
NA == [kind |-> "nan", s |-> <<>>, n |-> 0]
\* a string pandas parses as a date, named by the day it parses to
DateStr(d) == [kind |-> "date", s |-> <<>>, n |-> d]

IsNA(c) == c.kind = "nan"

\* the fixed-point scale of numbers
Hundred == 10 * 10

Digits == <<"0", "1", "2", "3", "4", "5", "6", "7", "8", "9">>
DigitSet == {Digits[i] : i \in 1..10}
DigitVal(c) == (CHOOSE i \in 1..10 : Digits[i] = c) - 1

Upper == <<"A", "B", "C", "D", "E", "F", "G", "H", "I", "J", "K", "L", "M",
           "N", "O", "P", "Q", "R", "S", "T", "U", "V", "W", "X", "Y", "Z">>
Lower == <<"a", "b", "c", "d", "e", "f", "g", "h", "i", "j", "k", "l", "m",
           "n", "o", "p", "q", "r", "s", "t", "u", "v", "w", "x", "y", "z">>

\* str.lower() on one character
LowerChar(c) ==
    IF \E i \in 1..26 : Upper[i] = c
    THEN Lower[CHOOSE i \in 1..26 : Upper[i] = c]
    ELSE c

StrLower(s) == [i \in 1..Len(s) |-> LowerChar(s[i])]

Whitespace == {" ", "\t", "\n", "\r"}

\* str.strip()
RECURSIVE StripLeft(_)
StripLeft(s) ==
    IF Len(s) > 0 /\ s[1] \in Whitespace THEN StripLeft(Tail(s)) ELSE s

RECURSIVE StripRight(_)
StripRight(s) ==
    IF Len(s) > 0 /\ s[Len(s)] \in Whitespace
    THEN StripRight(SubSeq(s, 1, Len(s) - 1))
    ELSE s

StrStrip(s) == StripRight(StripLeft(s))

\* re.sub / str.replace that keeps the characters of a set
RECURSIVE KeepChars(_, _)
KeepChars(s, keep) ==
    IF Len(s) = 0 THEN <<>>
    ELSE IF s[1] \in keep THEN <<s[1]>> \o KeepChars(Tail(s), keep)
    ELSE KeepChars(Tail(s), keep)

\* str.replace(c, "")
RECURSIVE DropChar(_, _)
DropChar(s, c) ==
    IF Len(s) = 0 THEN <<>>
    ELSE IF s[1] = c THEN DropChar(Tail(s), c)
    ELSE <<s[1]>> \o DropChar(Tail(s), c)

RECURSIVE DigitsValue(_, _)
DigitsValue(s, acc) ==
    IF Len(s) = 0 THEN acc ELSE DigitsValue(Tail(s), 10 * acc + DigitVal(s[1]))

AllDigits(s) == \A i \in 1..Len(s) : s[i] \in DigitSet

\* the first two decimals of a fraction's digits, as hundredths
FractionValue(s) ==
    IF Len(s) = 0 THEN 0
    ELSE IF Len(s) = 1 THEN 10 * DigitVal(s[1])
    ELSE 10 * DigitVal(s[1]) + DigitVal(s[2])

(* float(s) on a string of digits, "." and "-": an optional leading "-",   *)
(* digits with at most one "." among them and at least one digit; anything *)
(* else raises ValueError, which is NA here.                               *)
UnsignedFloat(s) ==
    LET dots == {i \in 1..Len(s) : s[i] = "."}
    IN IF dots = {}
       THEN IF Len(s) > 0 /\ AllDigits(s) THEN Num(Hundred * DigitsValue(s, 0)) ELSE NA
       ELSE IF Cardinality(dots) > 1 THEN NA
       ELSE LET d == CHOOSE i \in dots : TRUE
                ip == SubSeq(s, 1, d - 1)
                fp == SubSeq(s, d + 1, Len(s))
            IN IF AllDigits(ip) /\ AllDigits(fp) /\ Len(ip) + Len(fp) > 0
               THEN Num(Hundred * DigitsValue(ip, 0) + FractionValue(fp))
               ELSE NA

ParseFloat(s) ==
    IF Len(s) > 0 /\ s[1] = "-"
    THEN LET u == UnsignedFloat(Tail(s))
         IN IF IsNA(u) THEN NA ELSE Num(0 - u.n)
    ELSE UnsignedFloat(s)

\* str(value) of a string or missing cell
PyStr(c) == IF c.kind = "nan" THEN <<"n", "a", "n">> ELSE c.s

----------------------------------------------------------------------------
(* utils.py *)

COMPLETED == <<"c", "o", "m", "p", "l", "e", "t", "e", "d">>
CANCELLED == <<"c", "a", "n", "c", "e", "l", "l", "e", "d">>
PENDING == <<"p", "e", "n", "d", "i", "n", "g">>

CompletedWords == {COMPLETED, <<"c", "o", "m", "p", "l", "e", "t", "e">>, <<"d", "o", "n", "e">>}
CancelledWords == {CANCELLED, <<"c", "a", "n", "c", "e", "l", "e", "d">>}
PendingWords == {PENDING, <<"i", "n", " ", "p", "r", "o", "g", "r", "e", "s", "s">>,
                 <<"p", "r", "o", "c", "e", "s", "s", "i", "n", "g">>}

normalize_status(value) ==
    LET s == StrLower(StrStrip(PyStr(value)))
    IN IF s \in CompletedWords THEN Str(COMPLETED)
       ELSE IF s \in CancelledWords THEN Str(CANCELLED)
       ELSE IF s \in PendingWords THEN Str(PENDING)
       ELSE NA

MoneyChars == DigitSet \cup {".", "-"}

parse_money(value) ==
    IF value.kind = "nan" THEN NA
    ELSE IF value.kind = "num" THEN value
    ELSE LET s0 == StrStrip(value.s)
             s1 == KeepChars(DropChar(s0, ","), MoneyChars)
         IN IF Len(s0) = 0 THEN NA
            ELSE IF s1 \in {<<>>, <<"-">>, <<".">>, <<"-", ".">>} THEN NA
            ELSE ParseFloat(s1)

\* pd.to_datetime(errors="coerce") on one cell
to_datetime(value) == IF value.kind = "date" THEN value ELSE NA

\* pd.to_numeric(errors="coerce") on one cell: no character is dropped
to_numeric(value) ==
    IF value.kind = "num" THEN value
    ELSE IF value.kind = "str" THEN ParseFloat(StrStrip(value.s))
    ELSE NA

----------------------------------------------------------------------------
(* analyzer.py: the missing-value strategies and clean_data.  A table is   *)
(* the sequence of its rows, a row a record of its nine columns.           *)

Critical == {"order_id", "customer_id", "order_date", "product_category",
             "product_name", "quantity", "unit_price", "order_amount", "status"}

\* a strategy whose fillna result is not kept
FillNothing(df) == df

FillStatusStrategy_apply(df) ==
    [i \in 1..Len(df) |->
        IF IsNA(df[i].status) THEN [df[i] EXCEPT !.status = Str(PENDING)] ELSE df[i]]

(* FillStatusStrategy.apply as a call: df = df.copy() binds the name to a  *)
(* copy, the column assignment writes into it.  ret is what the call       *)
(* returns, arg the caller's table after the call.                         *)
FillStatusEffect(df) ==
    LET copy == CopyObject(Store(df), "caller")
        filled == WriteObject(copy.store, copy.ref,
                              FillStatusStrategy_apply(copy.store[copy.ref]))
    IN [ret |-> filled[copy.ref], arg |-> filled["caller"]]

HasAllCritical(r) == \A f \in Critical : ~IsNA(r[f])

DropMissingStrategy_apply(df) == SelectSeq(df, HasAllCritical)

\* dropna returns a new table and writes nothing
DropMissingEffect(df) ==
    LET store == Store(df)
    IN [ret |-> DropMissingStrategy_apply(store["caller"]), arg |-> store["caller"]]

RECURSIVE DropDuplicatesFrom(_, _, _)
DropDuplicatesFrom(df, i, kept) ==
    IF i > Len(df) THEN kept
    ELSE IF \E j \in 1..Len(kept) : kept[j] = df[i]
         THEN DropDuplicatesFrom(df, i + 1, kept)
         ELSE DropDuplicatesFrom(df, i + 1, Append(kept, df[i]))

drop_duplicates(df) == DropDuplicatesFrom(df, 1, <<>>)

\* astype(int): truncation towards zero
AsInt(c) ==
    IF c.n >= 0 THEN Num((c.n \div Hundred) * Hundred)
    ELSE Num(0 - (((0 - c.n) \div Hundred) * Hundred))

QuantityPositive(r) == r.quantity.kind = "num" /\ r.quantity.n > 0
UnitPriceNonNegative(r) == r.unit_price.kind = "num" /\ r.unit_price.n >= 0
OrderAmountNonNegative(r) == r.order_amount.kind = "num" /\ r.order_amount.n >= 0

ParseRow(r) ==
    [r EXCEPT !.order_date = to_datetime(r.order_date),
              !.status = normalize_status(r.status),
              !.quantity = to_numeric(r.quantity),
              !.unit_price = parse_money(r.unit_price),
              !.order_amount = parse_money(r.order_amount)]

FinalTypes(r) == [r EXCEPT !.quantity = AsInt(r.quantity)]

\* the column assignments of lines 67-75, written into the table df names
ParseTable(df) == [i \in 1..Len(df) |-> ParseRow(df[i])]

(* The filters, drop_duplicates and the strategies each return a new       *)
(* table, and the final casts are written into the last of them.           *)
CleanParsed(parsed) ==
    LET valid == SelectSeq(SelectSeq(SelectSeq(parsed, QuantityPositive),
                                     UnitPriceNonNegative), OrderAmountNonNegative)
        unique == drop_duplicates(valid)
        kept == DropMissingEffect(FillStatusEffect(unique).ret).ret
    IN [i \in 1..Len(kept) |-> FinalTypes(kept[i])]

\* clean_data as a call: ret is the cleaned table, arg the caller's table after
CleanEffect(df) ==
    LET copy == CopyObject(Store(df), "caller")
        parsed == WriteObject(copy.store, copy.ref, ParseTable(copy.store[copy.ref]))
    IN [ret |-> CleanParsed(parsed[copy.ref]), arg |-> parsed["caller"]]

clean_data(df) == CleanEffect(df).ret

----------------------------------------------------------------------------
(* The raw tables drawn: every table of one row over the cell values below *)
(* and the tables of up to MaxRawRows rows that differ only in order_id    *)
(* and status.                                                             *)

MaxRawRows == 3

OrderIdCells == {Str(<<"o", "1">>), Str(<<"o", "2">>)}
DateCells == {DateStr(1), Str(<<"s", "o", "o", "n">>), NA}
QuantityCells == {Num(200), Num(50), Num(0), Str(<<"1", ".", "5">>), Str(<<"t", "w", "o">>), NA}
UnitPriceCells == {Num(250), Str(<<"$", "1", ",", "2", "3", "4", ".", "5", "0">>),
                   Str(<<"-", "3">>), Str(<<"1", ".", "2", ".", "3">>), NA}
OrderAmountCells == {Num(500), Str(<<" ", "$", "9", "9", " ">>), Str(<<"-">>), Num(0 - 100), NA}
StatusCells == {Str(<<" ", "D", "o", "n", "e", " ">>), Str(<<"C", "A", "N", "C", "E", "L", "E", "D">>),
                Str(<<"i", "n", " ", "p", "r", "o", "g", "r", "e", "s", "s">>),
                Str(<<"x", "y", "z">>), Str(PENDING), NA}

ValidRow ==
    [order_id |-> Str(<<"o", "1">>), customer_id |-> Str(<<"c", "1">>),
     order_date |-> DateStr(1), product_category |-> Str(<<"A">>),
     product_name |-> Str(<<"p">>), quantity |-> Num(200), unit_price |-> Num(250),
     order_amount |-> Num(500), status |-> Str(COMPLETED)]

AnyRows ==
    [order_id : {Str(<<"o", "1">>), NA}, customer_id : {Str(<<"c", "1">>), NA},
     order_date : DateCells, product_category : {Str(<<"A">>), NA},
     product_name : {Str(<<"p">>), NA}, quantity : QuantityCells,
     unit_price : UnitPriceCells, order_amount : OrderAmountCells, status : StatusCells]

StatusRows ==
    {[ValidRow EXCEPT !.order_id = o, !.status = st] : o \in OrderIdCells, st \in StatusCells}

RawTables(n) == {<<r>> : r \in AnyRows} \cup SeqsUpTo(StatusRows, n)

CleanInit ==
    /\ raw \in RawTables(MaxRawRows)
    /\ cleaned = <<>>
    /\ cleanPc = "loaded"
    /\ AlgoIdle
    /\ StrategyIdle
    /\ AnalyticsIdle
    /\ NothingHanded

CleanData ==
    /\ cleanPc = "loaded"
    /\ cleaned' = clean_data(raw)
    /\ cleanPc' = "cleaned"
    /\ handed' = raw
    /\ handedNow' = CleanEffect(raw).arg
    /\ UNCHANGED <<raw, algoVars, strategyVars, analyticsVars>>

CleanNext == CleanData

SpecClean == CleanInit /\ [][CleanNext]_vars

----------------------------------------------------------------------------
(* The tables handed to the strategies: parsed rows in which the status    *)
(* and at most one other critical column may be missing.                   *)

MaxFrameRows == 2

ParsedRow == [ValidRow EXCEPT !.order_date = to_datetime(ValidRow.order_date)]

FrameRows ==
    {[r EXCEPT !.status = st] :
        r \in {ParsedRow} \cup {[ParsedRow EXCEPT ![f] = NA] : f \in Critical \ {"status"}},
        st \in {Str(COMPLETED), Str(CANCELLED), Str(PENDING), NA}}

StrategyInit ==
    /\ frameIn \in SeqsUpTo(FrameRows, MaxFrameRows)
    /\ frame = frameIn
    /\ applied = <<>>
    /\ AlgoIdle
    /\ CleanIdle
    /\ AnalyticsIdle
    /\ NothingHanded

ApplyFillStatus ==
    /\ Len(applied) < 2
    /\ frame' = FillStatusEffect(frame).ret
    /\ applied' = Append(applied, "fill")
    /\ handed' = frame
    /\ handedNow' = FillStatusEffect(frame).arg
    /\ UNCHANGED <<frameIn, algoVars, cleanVars, analyticsVars>>

ApplyDropMissing ==
    /\ Len(applied) < 2
    /\ frame' = DropMissingEffect(frame).ret
    /\ applied' = Append(applied, "drop")
    /\ handed' = frame
    /\ handedNow' = DropMissingEffect(frame).arg
    /\ UNCHANGED <<frameIn, algoVars, cleanVars, analyticsVars>>

StrategyNext == ApplyFillStatus \/ ApplyDropMissing

SpecStrategy == StrategyInit /\ [][StrategyNext]_vars

----------------------------------------------------------------------------
(* C3: when only the status is missing, in K rows, filling the status and  *)
(* then dropping the rows with a missing critical column keeps every row,  *)
(* and the K rows have status pending.                                     *)

OnlyStatusMissing(df) ==
    \A i \in 1..Len(df) : \A f \in Critical \ {"status"} : ~IsNA(df[i][f])

C3_FillThenDropKeepsRows ==
    (applied = <<"fill", "drop">> /\ OnlyStatusMissing(frameIn)) =>
        /\ Len(frame) = Len(frameIn)
        /\ \A i \in 1..Len(frameIn) :
               IF IsNA(frameIn[i].status)
               THEN frame[i] = [frameIn[i] EXCEPT !.status = Str(PENDING)]
               ELSE frame[i] = frameIn[i]

\* both rows lack a status and nothing else, and both strategies have run
C3_Witness ==
    /\ applied = <<"fill", "drop">>
    /\ OnlyStatusMissing(frameIn)
    /\ Len(frameIn) = 2
    /\ IsNA(frameIn[1].status)
    /\ IsNA(frameIn[2].status)
    /\ Len(frame) = 2
    /\ frame[1].status = Str(PENDING)

(* C4: every row clean_data returns has an integer quantity > 0, a unit    *)
(* price >= 0, an order amount >= 0, a status among completed, cancelled   *)
(* and pending, and no critical column missing.                            *)

IsWhole(c) == c.kind = "num" /\ c.n % Hundred = 0

C4_CleanRowsValid ==
    cleanPc = "cleaned" =>
        \A i \in 1..Len(cleaned) :
            /\ HasAllCritical(cleaned[i])
            /\ IsWhole(cleaned[i].quantity) /\ cleaned[i].quantity.n > 0
            /\ cleaned[i].unit_price.kind = "num" /\ cleaned[i].unit_price.n >= 0
            /\ cleaned[i].order_amount.kind = "num" /\ cleaned[i].order_amount.n >= 0
            /\ cleaned[i].status \in {Str(COMPLETED), Str(CANCELLED), Str(PENDING)}

(* C13: the table clean_data returns holds no two rows that are equal in   *)
(* all columns, rows that become equal only by the status fill included.   *)
C13_CleanedHasNoDuplicates ==
    cleanPc = "cleaned" =>
        \A i \in 1..Len(cleaned) : \A j \in 1..Len(cleaned) :
            cleaned[i] = cleaned[j] => i = j

----------------------------------------------------------------------------
(* analyzer.py: run_analytics_and_exports.  A cleaned row holds its        *)
(* order_id and customer_id as numbers, its product_category as a name and *)
(* its order_amount as a whole number.  The monthly trend, the status      *)
(* distribution, the average quantity and the top-products export read     *)
(* other columns and feed only the report text; they are not modelled.     *)

\* the category names, in ascending order
CategoryNames == <<"Books", "Toys">>
\* the place of every key in the ascending order of the keys
CategoryRank ==
    [c \in {CategoryNames[i] : i \in 1..Len(CategoryNames)} |->
        CHOOSE i \in 1..Len(CategoryNames) : CategoryNames[i] = c]
NumberRank(rows, col) == [x \in {rows[i][col] : i \in 1..Len(rows)} |-> x]

TopN == 10
NumTiers == 4
MinSegmentCustomers == 4
Labels == <<"Bronze", "Silver", "Gold", "Platinum">>

Range(s) == {s[i] : i \in 1..Len(s)}
Min(a, b) == IF a <= b THEN a ELSE b
head(s, n) == SubSeq(s, 1, Min(n, Len(s)))

IsCompleted(r) == r.status = "completed"

RECURSIVE SumAmounts(_)
SumAmounts(rows) ==
    IF Len(rows) = 0 THEN 0 ELSE rows[1].order_amount + SumAmounts(Tail(rows))

\* the keys of a groupby, ascending
RECURSIVE AscendingKeys(_, _)
AscendingKeys(S, rank) ==
    IF S = {} THEN <<>>
    ELSE LET m == CHOOSE x \in S : \A y \in S : rank[x] <= rank[y]
         IN <<m>> \o AscendingKeys(S \ {m}, rank)

\* groupby(col)["order_amount"].sum()
GroupSum(rows, col, rank) ==
    LET ks == AscendingKeys({rows[i][col] : i \in 1..Len(rows)}, rank)
    IN [i \in 1..Len(ks) |->
           [key |-> ks[i],
            value |-> SumAmounts(SelectSeq(rows, LAMBDA r : r[col] = ks[i]))]]

\* groupby("customer_id")["order_id"].nunique()
OrdersPerCustomer(rows) ==
    LET ks == AscendingKeys({rows[i].customer_id : i \in 1..Len(rows)},
                               NumberRank(rows, "customer_id"))
    IN [i \in 1..Len(ks) |->
           [key |-> ks[i],
            value |-> Cardinality({rows[j].order_id :
                                      j \in {j \in 1..Len(rows) : rows[j].customer_id = ks[i]}})]]

(* sort_values(ascending=False).  The default sort kind is quicksort,      *)
(* which is not stable: entries of equal value may come out in any order,  *)
(* so the result is any of the descending arrangements.                    *)
RECURSIVE SortValuesDesc(_)
SortValuesDesc(S) ==
    IF S = {} THEN {<<>>}
    ELSE LET top == {e \in S : \A f \in S : e.value >= f.value}
         IN UNION {{<<e>> \o t : t \in SortValuesDesc(S \ {e})} : e \in top}

\* a list of numbers in ascending order
RECURSIVE InsertAsc(_, _)
InsertAsc(s, x) ==
    IF Len(s) = 0 THEN <<x>>
    ELSE IF x <= s[1] THEN <<x>> \o s
    ELSE <<s[1]>> \o InsertAsc(Tail(s), x)

RECURSIVE SortAsc(_)
SortAsc(s) == IF Len(s) = 0 THEN <<>> ELSE InsertAsc(SortAsc(Tail(s)), s[1])

(* Series.quantile(k / q) with linear interpolation, as a multiple of 1/q: *)
(* the position (n - 1) * k / q lies between two order statistics.         *)
Quantile(values, k, q) ==
    LET xs == SortAsc(values)
        n == Len(xs)
        pos == (n - 1) * k
        lo == pos \div q
        fr == pos % q
    IN IF n = 0 THEN NaN
       ELSE IF fr = 0 THEN Rat(q * xs[lo + 1], q)
       ELSE Rat(q * xs[lo + 1] + fr * (xs[lo + 2] - xs[lo + 1]), q)

\* iqr = q3 - q1, both in quarters
Iqr(q1, q3) == IF q1.nan \/ q3.nan THEN NaN ELSE Rat(q3.num - q1.num, 4)

\* upper = q3 - 1.5 * iqr: the sign slipped
UpperBoundMinus(q1, q3) ==
    IF q1.nan \/ q3.nan THEN NaN ELSE Rat(2 * q3.num - 3 * Iqr(q1, q3).num, 8)

\* the lower fence in place of the upper one
LowerBound(q1, q3) ==
    IF q1.nan \/ q3.nan THEN NaN ELSE Rat(2 * q1.num - 3 * Iqr(q1, q3).num, 8)

\* upper = q3 + 1.5 * iqr, in eighths
UpperBound(q1, q3) ==
    IF q1.nan \/ q3.nan THEN NaN ELSE Rat(2 * q3.num + 3 * Iqr(q1, q3).num, 8)

\* amount > upper; a comparison with NaN is false
Exceeds(amount, upper) == ~upper.nan /\ amount * upper.den > upper.num

\* Series.mean()
Mean(series) ==
    IF Len(series) = 0 THEN NaN
    ELSE Rat(SumAmounts([i \in 1..Len(series) |-> [order_amount |-> series[i].value]]),
             Len(series))

\* index[0] without the guard on an empty index
FirstKeyUnguarded(series) == IF Len(series) > 0 THEN series[1].key ELSE "IndexError"

\* revenue_by_cat.index[0] if len(revenue_by_cat) else "N/A"
TopCategory(series) == IF Len(series) > 0 THEN series[1].key ELSE "N/A"

\* (orders_per_customer.gt(1).mean() * 100) if len(orders_per_customer) else 0.0
RepeatRate(opc) ==
    IF Len(opc) > 0
    THEN Rat(100 * Cardinality({i \in 1..Len(opc) : opc[i].value > 1}), Len(opc))
    ELSE Rat(0, 1)

\* equal-width bins (pd.cut) in place of quantile bins
CutEdges(values) ==
    LET xs == SortAsc(values)
    IN [k \in 0..NumTiers |-> NumTiers * xs[1] + k * (xs[Len(xs)] - xs[1])]

\* the bin edges of pd.qcut(ltv, 4), in quarters
QcutEdges(values) == [k \in 0..NumTiers |-> Quantile(values, k, NumTiers).num]

\* duplicates="raise": the edges must be unique
EdgesUnique(edges) == \A j, k \in DOMAIN edges : j # k => edges[j] # edges[k]

\* bins.searchsorted(x, side="left"), include_lowest
BinOf(edges, x) ==
    IF NumTiers * x = edges[0] THEN 1
    ELSE Cardinality({k \in DOMAIN edges : edges[k] < NumTiers * x})

\* pd.qcut(ltv, 4, labels=[...]): the tier of every customer
Qcut(ltv) ==
    LET edges == QcutEdges([i \in 1..Len(ltv) |-> ltv[i].value])
    IN [i \in 1..Len(ltv) |-> [key |-> ltv[i].key, tier |-> Labels[BinOf(edges, ltv[i].value)]]]

QcutRaises(ltv) == ~EdgesUnique(QcutEdges([i \in 1..Len(ltv) |-> ltv[i].value]))

\* tiers.value_counts().sort_index()
ValueCounts(tiers) ==
    [t \in 1..NumTiers |->
        [tier |-> Labels[t],
         count |-> Cardinality({i \in 1..Len(tiers) : tiers[i].tier = Labels[t]})]]

OutlierRows(completed, upper) ==
    LET hit == SelectSeq(completed, LAMBDA r : Exceeds(r.order_amount, upper))
    IN {[key |-> [order_id |-> hit[i].order_id, customer_id |-> hit[i].customer_id,
                  order_amount |-> hit[i].order_amount],
         value |-> hit[i].order_amount] : i \in 1..Len(hit)}

(* What one run can end with: the report, the csv written and whether the  *)
(* run returned ("done") or qcut raised ValueError ("raised"), for every    *)
(* order the three sorts can leave equal values in.                        *)
RunOutcomes(df) ==
    LET completed == SelectSeq(df, IsCompleted)
        amounts == [i \in 1..Len(completed) |-> completed[i].order_amount]
        q1 == Quantile(amounts, 1, 4)
        q3 == Quantile(amounts, 3, 4)
        upper == UpperBound(q1, q3)
    IN {LET segment == Len(ltv) >= MinSegmentCustomers
            tiers == IF segment /\ ~QcutRaises(ltv) THEN Qcut(ltv) ELSE <<>>
        IN [pc |-> IF segment /\ QcutRaises(ltv) THEN "raised" ELSE "done",
            csv |-> head(ltv, TopN),
            report |->
               [total_revenue |-> SumAmounts(completed),
                aov |-> Mean(GroupSum(completed, "order_id", NumberRank(completed, "order_id"))),
                customer_count |-> Cardinality({df[i].customer_id : i \in 1..Len(df)}),
                revenue_by_cat |-> rbc,
                top_category |-> TopCategory(rbc),
                customer_ltv |-> ltv,
                top_customers |-> head(ltv, TopN),
                repeat_rate |-> RepeatRate(OrdersPerCustomer(completed)),
                q1 |-> q1, q3 |-> q3, upper |-> upper,
                outliers |-> [i \in 1..Len(out) |-> out[i].key],
                tiers |-> tiers,
                segmentation |-> IF segment /\ ~QcutRaises(ltv) THEN ValueCounts(tiers) ELSE <<>>]] :
           rbc \in SortValuesDesc(Range(GroupSum(completed, "product_category", CategoryRank))),
           ltv \in SortValuesDesc(Range(GroupSum(completed, "customer_id",
                                             NumberRank(completed, "customer_id")))),
           out \in SortValuesDesc(OutlierRows(completed, upper))}

\* the order_date of a cleaned row is a datetime.date
OrderDate(d) == [type |-> "date", day |-> d]

\* pd.to_datetime on a column of dates: datetime64 timestamps
ToTimestamps(df) ==
    [i \in 1..Len(df) |-> [df[i] EXCEPT !.order_date = [@ EXCEPT !.type = "datetime64"]]]

(* run_analytics_and_exports as a call: df = df.copy() binds the name to a *)
(* copy and the order_date assignment writes into it; the filtered tables  *)
(* the metrics read are new tables.  arg is the caller's table after.      *)
AnalyticsEffect(df) ==
    LET copy == CopyObject(Store(df), "caller")
        dated == WriteObject(copy.store, copy.ref, ToTimestamps(copy.store[copy.ref]))
    IN [outcomes |-> RunOutcomes(dated[copy.ref]), arg |-> dated["caller"]]

RunAnalytics ==
    /\ anaPc = "loaded"
    /\ \E o \in AnalyticsEffect(orders).outcomes :
          /\ anaPc' = o.pc
          /\ csv' = o.csv
          /\ report' = IF o.pc = "done" THEN o.report ELSE NoReport
    /\ handed' = orders
    /\ handedNow' = AnalyticsEffect(orders).arg
    /\ UNCHANGED <<orders, before, algoVars, cleanVars, strategyVars>>

----------------------------------------------------------------------------
(* The cleaned tables drawn for the rankings: up to MaxOrders rows, one    *)
(* order per row, over two customers, the two categories, the amounts      *)
(* 1..MaxAmount and the three statuses.  No aggregate reads the order of   *)
(* the rows, so the tables are drawn up to row order.                      *)

MaxOrders == 3
MaxAmount == 2

Statuses == {"completed", "cancelled", "pending"}

RowKinds ==
    [customer_id : {1, 2}, product_category : Range(CategoryNames),
     order_amount : 1..MaxAmount, status : Statuses]

StatusRank(st) == IF st = "completed" THEN 0 ELSE IF st = "cancelled" THEN 1 ELSE 2

RowCode(r) ==
    ((r.customer_id * 2 + CategoryRank[r.product_category]) * (MaxAmount + 1)
        + r.order_amount) * 3 + StatusRank(r.status)

RECURSIVE KindLists(_)
KindLists(n) ==
    IF n = 0 THEN {<<>>}
    ELSE {Append(p[1], p[2]) :
            p \in {p \in KindLists(n - 1) \X RowKinds :
                     Len(p[1]) = 0 \/ RowCode(p[1][Len(p[1])]) <= RowCode(p[2])}}

\* every row is an order of its own
Numbered(kinds) ==
    [i \in 1..Len(kinds) |->
        [order_id |-> i, customer_id |-> kinds[i].customer_id, order_date |-> OrderDate(1),
         product_category |-> kinds[i].product_category,
         order_amount |-> kinds[i].order_amount, status |-> kinds[i].status]]

RankingTables(m) == {Numbered(k) : k \in UNION {KindLists(n) : n \in 0..m}}

RankingInit ==
    /\ orders \in RankingTables(MaxOrders)
    /\ report = NoReport
    /\ anaPc = "loaded"
    /\ csv = <<>>
    /\ before = NoBefore
    /\ AlgoIdle
    /\ CleanIdle
    /\ StrategyIdle
    /\ NothingHanded

RankingNext == RunAnalytics

SpecRanking == RankingInit /\ [][RankingNext]_vars

----------------------------------------------------------------------------
(* The tables drawn for the segmentation: up to MaxCustomers customers,    *)
(* each with one completed order of an amount in 1..MaxLtv.                *)

MaxCustomers == 4
MaxLtv == 5

CompletedOrders(amounts, customer) ==
    [i \in 1..Len(amounts) |->
        [order_id |-> i, customer_id |-> IF customer = 0 THEN i ELSE customer,
         order_date |-> OrderDate(1),
         product_category |-> CategoryNames[1],
         order_amount |-> amounts[i], status |-> "completed"]]

SegmentTables(n) == {CompletedOrders(a, 0) : a \in SeqsUpTo(1..MaxLtv, n)}

SegmentInit ==
    /\ orders \in SegmentTables(MaxCustomers)
    /\ report = NoReport
    /\ anaPc = "loaded"
    /\ csv = <<>>
    /\ before = NoBefore
    /\ AlgoIdle
    /\ CleanIdle
    /\ StrategyIdle
    /\ NothingHanded

SegmentNext == RunAnalytics

SpecSegment == SegmentInit /\ [][SegmentNext]_vars

----------------------------------------------------------------------------
(* The tables drawn for the outlier bound: 1..MaxSample completed orders   *)
(* of one customer, of amounts in 1..MaxValue.  After a run, one order's   *)
(* amount is raised by 1..MaxRaise and the analytics run again.            *)

MaxSample == 4
MaxValue == 3
MaxRaise == 2

OutlierTables(n) ==
    {CompletedOrders(a, 1) : a \in SeqsUpTo(1..MaxValue, n) \ {<<>>}}

OutlierInit ==
    /\ orders \in OutlierTables(MaxSample)
    /\ report = NoReport
    /\ anaPc = "loaded"
    /\ csv = <<>>
    /\ before = NoBefore
    /\ AlgoIdle
    /\ CleanIdle
    /\ StrategyIdle
    /\ NothingHanded

RerunWithRaisedAmount ==
    /\ anaPc = "done"
    /\ before = NoBefore
    /\ \E i \in 1..Len(orders), d \in 1..MaxRaise :
          /\ orders' = [orders EXCEPT ![i].order_amount = @ + d]
          /\ before' = [upper |-> report.upper, q3 |-> report.q3, row |-> i,
                        amounts |-> [j \in 1..Len(orders) |-> orders[j].order_amount]]
          /\ \E o \in AnalyticsEffect(orders').outcomes :
                /\ anaPc' = o.pc
                /\ csv' = o.csv
                /\ report' = IF o.pc = "done" THEN o.report ELSE NoReport
          /\ handed' = orders'
          /\ handedNow' = AnalyticsEffect(orders').arg
    /\ UNCHANGED <<algoVars, cleanVars, strategyVars>>

OutlierNext == RunAnalytics \/ RerunWithRaisedAmount

SpecOutlier == OutlierInit /\ [][OutlierNext]_vars

\* a >= b on numbers that are not NaN
RatGe(a, b) == ~a.nan /\ ~b.nan /\ a.num * b.den >= b.num * a.den

Raised == before.row # 0 /\ anaPc = "done"

(* C5, as stated: raising any one completed order's amount never lowers    *)
(* the outlier upper bound.                                                *)
C5_UpperBoundMonotonic == Raised => RatGe(report.upper, before.upper)

(* C5, amended: raising the amount of a completed order that was at least  *)
(* Q3 before the change never lowers the outlier upper bound.              *)
C5_UpperBoundMonotonicFromQ3 ==
    (Raised /\ RatGe(Rat(before.amounts[before.row], 1), before.q3)) =>
        RatGe(report.upper, before.upper)

\* the raised order was at or above Q3, was not the only largest, and the bound grew
C5_Witness ==
    /\ Raised
    /\ RatGe(Rat(before.amounts[before.row], 1), before.q3)
    /\ \E j \in 1..Len(before.amounts) :
          j # before.row /\ before.amounts[j] >= before.amounts[before.row]
    /\ \E j \in 1..Len(before.amounts) : before.amounts[j] < before.amounts[before.row]
    /\ ~RatGe(before.upper, report.upper)

(* C6: raising the largest completed order amount never lowers the outlier *)
(* upper bound.                                                            *)
C6_RaisingLargestKeepsBound ==
    (Raised /\ \A j \in 1..Len(before.amounts) :
                  before.amounts[j] <= before.amounts[before.row]) =>
        RatGe(report.upper, before.upper)

\* the one largest of several different amounts was raised
C6_Witness ==
    /\ Raised
    /\ Len(before.amounts) >= 3
    /\ \A j \in 1..Len(before.amounts) :
          j # before.row => before.amounts[j] < before.amounts[before.row]
    /\ \E j, k \in 1..Len(before.amounts) : before.amounts[j] < before.amounts[k]
    /\ report.upper # before.upper

----------------------------------------------------------------------------
Ran == anaPc \in {"done", "raised"}

CompletedKeys(col) ==
    {orders[i][col] : i \in {i \in 1..Len(orders) : IsCompleted(orders[i])}}

(* C7: revenue-by-category is in descending order of revenue with equal    *)
(* revenues in ascending order of category name; the top-customers table   *)
(* is in descending order of lifetime value with equal values in ascending *)
(* order of customer_id, and has min(10, customers with completed orders)  *)
(* rows.                                                                   *)
C7_RankingsFollowTieBreaks ==
    anaPc = "done" =>
        /\ \A i \in 1..(Len(report.revenue_by_cat) - 1) :
              LET a == report.revenue_by_cat[i]
                  b == report.revenue_by_cat[i + 1]
              IN \/ a.value > b.value
                 \/ a.value = b.value /\ CategoryRank[a.key] < CategoryRank[b.key]
        /\ \A i \in 1..(Len(report.top_customers) - 1) :
              LET a == report.top_customers[i]
                  b == report.top_customers[i + 1]
              IN \/ a.value > b.value
                 \/ a.value = b.value /\ a.key < b.key
        /\ Len(report.top_customers) = Min(TopN, Cardinality(CompletedKeys("customer_id")))
        /\ csv = report.top_customers

TierIndex(t) == CHOOSE k \in 1..NumTiers : Labels[k] = t

DistinctLtvs ==
    \A i, j \in 1..Len(orders) : i # j => orders[i].order_amount # orders[j].order_amount

(* C8: four customers with four different lifetime values get one tier     *)
(* each, Bronze to Platinum in ascending order of lifetime value.          *)
C8_FourCustomersOnePerTier ==
    (Ran /\ Cardinality(CompletedKeys("customer_id")) = 4 /\ Len(orders) = 4 /\ DistinctLtvs) =>
        /\ anaPc = "done"
        /\ Len(report.segmentation) = NumTiers
        /\ \A t \in 1..NumTiers :
              report.segmentation[t].tier = Labels[t] /\ report.segmentation[t].count = 1
        /\ \A i, j \in 1..Len(report.tiers) :
              LET vi == orders[report.tiers[i].key].order_amount
                  vj == orders[report.tiers[j].key].order_amount
              IN vi < vj => TierIndex(report.tiers[i].tier) < TierIndex(report.tiers[j].tier)

\* four customers whose lifetime values are not evenly spaced got their tiers
C8_Witness ==
    /\ anaPc = "done"
    /\ Len(orders) = 4
    /\ DistinctLtvs
    /\ \E i \in 1..4 : orders[i].order_amount = MaxLtv
    /\ \A i \in 1..4 : orders[i].order_amount # MaxLtv - 1
    /\ Len(report.tiers) = 4
    /\ orders[1].order_amount > orders[2].order_amount

(* C9: the segmentation never raises: with fewer than 4 customers with     *)
(* completed orders it is empty, otherwise it splits all the customers     *)
(* into the 4 tiers with equal population.                                 *)
C9_SegmentationNeverRaises ==
    Ran =>
        /\ anaPc # "raised"
        /\ Cardinality(CompletedKeys("customer_id")) < 4 => report.segmentation = <<>>
        /\ Cardinality(CompletedKeys("customer_id")) >= 4 =>
              /\ Len(report.segmentation) = NumTiers
              /\ \A t, u \in 1..NumTiers :
                    report.segmentation[t].count <= report.segmentation[u].count + 1

(* C10: with no completed order the run returns, with total revenue 0, an  *)
(* average order value of NaN, top category "N/A", repeat-customer rate 0, *)
(* no outliers and an empty segmentation.                                  *)
C10_NoCompletedOrders ==
    (Ran /\ CompletedKeys("order_id") = {}) =>
        /\ anaPc = "done"
        /\ report.total_revenue = 0
        /\ report.aov = NaN
        /\ report.top_category = "N/A"
        /\ report.repeat_rate = Rat(0, 1)
        /\ report.upper = NaN
        /\ report.outliers = <<>>
        /\ report.segmentation = <<>>
        /\ report.revenue_by_cat = <<>>
        /\ csv = <<>>

\* a table of orders none of which is completed went through the run
C10_Witness ==
    /\ anaPc = "done"
    /\ Len(orders) >= 2
    /\ CompletedKeys("order_id") = {}
    /\ report.customer_count = 2

----------------------------------------------------------------------------
(* analyzer.py: run_algorithmic_analysis.  The tables drawn hold up to     *)
(* MaxTimedRows completed orders whose amounts repeat a pair of amounts;   *)
(* the call times the sort and the search only from MinTimingRows rows on. *)

MinTimingRows == 10
SortCap == 2000
SearchRepeats == 2000

MaxTimedRows == 10

Pattern(seed, n) == [i \in 1..n |-> seed[((i - 1) % Len(seed)) + 1]]

TimedTables(n) ==
    {CompletedOrders(Pattern(seed, k), 1) : seed \in SeqsOfLen(1..MaxAmount, 2), k \in 0..n}

\* the clock readings a call takes: two per timeit call, none when it returns early
ClocksRead(df) ==
    IF Len(df) < MinTimingRows THEN {<<>>} ELSE SeqsOfLen(Readings, 4)

(* The report text is built from sort_res and search_res.  df, sample and  *)
(* sorted_amounts are the caller's table and the two lists handed to the   *)
(* timing comparators, as the call leaves them.                            *)
run_algorithmic_analysis(df, clocks) ==
    LET store == Store(df)
        amounts == [i \in 1..Len(store["caller"]) |-> store["caller"][i].order_amount]
    IN IF Len(amounts) < MinTimingRows
       THEN [timed |-> FALSE, sort_res |-> <<>>, search_res |-> <<>>,
             handed |-> <<df, <<>>, <<>>>>,
             after |-> <<store["caller"], <<>>, <<>>>>]
       ELSE LET sample == head(amounts, SortCap)
                sortOut == compare_sort_timing(sample, SortRepeats, clocks[1], clocks[2])
                sorted_amounts == SortAsc(amounts)
                x == sorted_amounts[(Len(sorted_amounts) \div 2) + 1]
                searchOut == compare_search_timing(sorted_amounts, x, SearchRepeats,
                                                   clocks[3], clocks[4])
            IN [timed |-> TRUE, sort_res |-> sortOut.result, search_res |-> searchOut.result,
                handed |-> <<df, sample, sorted_amounts>>,
                after |-> <<store["caller"], sortOut.data, searchOut.data>>]

AnalysisOp(out) ==
    IF ~out.timed THEN "not_enough_data"
    ELSE IF out.sort_res.speedup = ZeroDivision \/ out.search_res.speedup = ZeroDivision
         THEN "ZeroDivisionError"
         ELSE "run_algorithmic_analysis"

CallRunAlgorithmicAnalysis ==
    /\ algoOp = "none"
    /\ \E df \in TimedTables(MaxTimedRows) : \E clocks \in ClocksRead(df) :
        LET out == run_algorithmic_analysis(df, clocks)
        IN /\ algoOp' = AnalysisOp(out)
           /\ arr' = df
           /\ target' = 0
           /\ ret' = [sort_res |-> out.sort_res, search_res |-> out.search_res]
           /\ handed' = out.handed
           /\ handedNow' = out.after
           /\ UNCHANGED <<cleanVars, strategyVars, analyticsVars>>

----------------------------------------------------------------------------
(* Every stage, called by a caller that keeps the table or list it hands   *)
(* over: the caller loads a raw table and cleans it, hands a table to the  *)
(* strategies, hands a cleaned table to the analytics, or calls the timing *)
(* comparators and the algorithmic analysis.                               *)

MaxHanded == 1

FrameInit ==
    \/ AlgoInit
    \/ /\ raw \in RawTables(MaxHanded)
       /\ cleaned = <<>>
       /\ cleanPc = "loaded"
       /\ AlgoIdle /\ StrategyIdle /\ AnalyticsIdle /\ NothingHanded
    \/ /\ frameIn \in SeqsUpTo(FrameRows, MaxHanded)
       /\ frame = frameIn
       /\ applied = <<>>
       /\ AlgoIdle /\ CleanIdle /\ AnalyticsIdle /\ NothingHanded
    \/ /\ orders \in RankingTables(MaxHanded)
       /\ report = NoReport
       /\ anaPc = "loaded"
       /\ csv = <<>>
       /\ before = NoBefore
       /\ AlgoIdle /\ CleanIdle /\ StrategyIdle /\ NothingHanded

\* the caller that holds no raw table and no cleaned table of its own
NoTableLoaded == cleanPc = "idle" /\ anaPc = "idle"

\* and no table that went into a strategy
NoFrameHeld == frameIn = <<>> /\ applied = <<>>

FrameNext ==
    \/ CleanData
    \/ RunAnalytics
    \/ (NoTableLoaded /\ algoOp = "none" /\ ApplyFillStatus)
    \/ (NoTableLoaded /\ algoOp = "none" /\ ApplyDropMissing)
    \/ (NoTableLoaded /\ NoFrameHeld /\ CallCompareSortTiming)
    \/ (NoTableLoaded /\ NoFrameHeld /\ CallCompareSearchTiming)
    \/ (NoTableLoaded /\ NoFrameHeld /\ CallRunAlgorithmicAnalysis)
    \/ AlgoReturn

SpecFrame == FrameInit /\ [][FrameNext]_vars

(* C12: no pipeline stage changes the dataset it receives: after a call to *)
(* FillStatusStrategy.apply, DropMissingStrategy.apply, clean_data,        *)
(* run_analytics_and_exports, run_algorithmic_analysis or a timing         *)
(* comparator with its repeated trials, the table or list the caller       *)
(* handed over has the rows, values and order it had before the call.      *)
C12_StagesLeaveTheirInput == handedNow = handed

\* clean_data returned a row that differs from the raw row it was given
C12_Witness ==
    /\ cleanPc = "cleaned"
    /\ Len(raw) >= 1
    /\ Len(cleaned) = Len(raw)
    /\ cleaned[1].status # raw[1].status
    /\ cleaned[1].unit_price # raw[1].unit_price
    /\ handed = raw
    /\ handedNow = raw

====
